---- MODULE Spec2Model ----
(***************************************************************************)
(* SimpleDNSClient (dns_client.go): a TTL cache guarded by one mutex, and  *)
(* LookupIP, which consults the cache and on a miss walks the configured   *)
(* servers in order, failing over on a timeout and failing fast on any     *)
(* other error.  Any number of LookupIP calls run concurrently on one      *)
(* client; a call is cut into steps at the places where it touches shared  *)
(* state (the mutex, the map, the clock) or blocks (exchange).             *)
(***************************************************************************)
EXTENDS Integers, Sequences, FiniteSets, TLC

\* ---- bounds of the model ------------------------------------------------
NumProcs == 2       \* concurrent callers of LookupIP
MaxServers == 2     \* longest server list handed to NewSimpleDNSClient
MaxTime == 2        \* the clock runs 0..MaxTime (seconds)
MaxTTL == 1         \* TTLs of answer records are 0..MaxTTL (seconds)
MaxAnswers == 1     \* longest answer section, concurrent callers
MaxCalls == 3       \* LookupIP calls started, concurrent callers
MaxSeqAnswers == 2  \* longest answer section, one caller
MaxSeqCalls == 2    \* LookupIP calls started, one caller
MaxKeyCalls == 2    \* LookupIP calls started, callers of several names
MaxFairCalls == 2   \* LookupIP calls started, fair scheduling
MaxFields == 3      \* colon-separated fields of an endpoint string

Procs == 1..NumProcs
Hosts == {"a.com", "a.com."}
\* the same with a name that differs in case only
Keys == Hosts \cup {"A.com"}
IPs == {"10.0.0.1", "10.0.0.2"}

\* ---- values of the program ----------------------------------------------
ErrNil == "nil"
ErrAllServersFailed == "unable to reach any of the configured servers"
ErrNoServers == "at least one endpoint server is required"

\* what exchange can return as its error: a net.Error that timed out, a
\* net.Error that did not, and an error that is no net.Error
ExchangeErrors == {"i/o timeout", "connection refused", "EOF"}
IsNetError(e) == e \in {"i/o timeout", "connection refused"}
Timeout(e) == e = "i/o timeout"

\* the zero time.Time lies before every reading of the clock
ZeroTime == -1

\* resource records of an answer section: A records carry an address
RRs ==
  [type : {"A"}, Ttl : 0..MaxTTL, A : IPs] \cup
  [type : {"CNAME"}, Ttl : 0..MaxTTL, A : {""}]
Answers(len) == UNION {[1..n -> RRs] : n \in 0..len}

\* Endpoints.String() of the i-th configured server
Endpoint(i) == i
ServerLists == {[i \in 1..n |-> Endpoint(i)] : n \in 0..MaxServers}
\* the lists in any order, an endpoint possibly named more than once
EndpointLists ==
  UNION {[1..n -> {Endpoint(i) : i \in 1..MaxServers}] : n \in 0..MaxServers}

\* dnsCacheRecord; msg is a pointer: <<>> is nil, <<m>> points at m
ZeroRecord == [msg |-> <<>>, ips |-> <<>>, expires |-> ZeroTime]

NoReturn == [ips |-> <<>>, err |-> ErrNil, line |-> 0]

VARIABLES
  input,        \* the arguments of ParseEndpoint or of the expiry offset
  output,       \* its results
  client,       \* whether NewSimpleDNSClient has returned a client
  servers,      \* c.servers; <<>> while no client has been constructed
  newErr,       \* the error of the last NewSimpleDNSClient call
  now,          \* the clock read by time.Now()
  mutex,        \* d.mutex: 0 when free, else the caller holding it
  records,      \* d.records: a function whose domain is the keys present
  pc,           \* where each caller is in LookupIP
  host,         \* the argument of each caller's current call
  entry,        \* entry, ok := c.cache.Get(host)
  idx,          \* position of the range loop over c.servers
  rec,          \* the record the call built, kept until the next call
  ret,          \* what the call returned, and from which return statement
  xlog,         \* history: the exchanges the current call has got back
  prev,         \* history: the last record this caller stored, and its key
  lastSetter,   \* history: who executed Set last, per key
  ncalls        \* history: LookupIP calls started so far

vars == <<input, output, servers, client, newErr, now, mutex, records, pc, host, entry, idx, rec,
          ret, xlog, prev, lastSetter, ncalls>>

\* ---- dnsCache (lines 93-121) --------------------------------------------
\* newDNSCache: an empty map
newDNSCache == <<>>

\* the body of Get, lines 111-113: the stored record and whether one exists
Get(recs, key) ==
  IF key \in DOMAIN recs
    THEN [rec |-> recs[key], ok |-> TRUE]
    ELSE [rec |-> ZeroRecord, ok |-> FALSE]

\* line 170: dns.Fqdn(host), the name with its closing dot
Fqdn(h) == IF h \in {x \o "." : x \in Keys} THEN h ELSE h \o "."

\* a slip of line 209: the record is stored under the name that was queried
Set_FqdnKey(recs, key, r) ==
  [k \in (DOMAIN recs) \cup {Fqdn(key)} |->
     IF k = Fqdn(key) THEN r ELSE recs[k]]

\* a slip of line 120: the addresses are added to those of the record present
Set_Appends(recs, key, r) ==
  [k \in (DOMAIN recs) \cup {key} |->
     IF k # key THEN recs[k]
     ELSE IF key \in DOMAIN recs
            THEN [r EXCEPT !.ips = recs[key].ips \o r.ips]
            ELSE r]

\* a slip of line 120: a key already present keeps its record
Set_KeepsFirst(recs, key, r) ==
  IF key \in DOMAIN recs THEN recs
  ELSE [k \in (DOMAIN recs) \cup {key} |-> IF k = key THEN r ELSE recs[k]]

\* the body of Set, line 120: d.records[key] = rec
Set(recs, key, r) ==
  [k \in (DOMAIN recs) \cup {key} |-> IF k = key THEN r ELSE recs[k]]

\* ---- LookupIP, the pure parts -------------------------------------------
\* slips of line 162: !Before instead of After; Before instead of After
StillGood_NotBefore(e, t) == e.ok /\ e.rec.expires >= t
StillGood_Before(e, t) == e.ok /\ e.rec.expires < t
\* another: the expiry is not looked at
StillGood_IgnoresExpiry(e, t) == e.ok

\* line 162: ok && entry.expires.After(time.Now())
StillGood(e, t) == e.ok /\ e.rec.expires > t

\* slips of line 177: no error counts as a timeout; every net.Error does
IsTimeout_Never(err) == FALSE
IsTimeout_AnyNetError(err) == err # ErrNil /\ IsNetError(err)

\* line 177: nerr, ok := err.(net.Error); ok && nerr.Timeout()
IsTimeout(err) == err # ErrNil /\ IsNetError(err) /\ Timeout(err)

\* line 199: shortestTTL == 0 || h.Ttl < shortestTTL
TakesTTL(shortestTTL, ttl) == shortestTTL = 0 \/ ttl < shortestTTL

\* a slip of lines 194-201: the TTL of a record of any type is looked at
AnswerStep_TTLOfAnyType(acc, ans) ==
  [ips |-> IF ans.type = "A" THEN Append(acc.ips, ans.A) ELSE acc.ips,
   shortestTTL |-> IF acc.shortestTTL = 0 \/ ans.Ttl < acc.shortestTTL
                     THEN ans.Ttl ELSE acc.shortestTTL]

\* lines 192-202: one iteration of the loop over r.Answer
AnswerStep(acc, ans) ==
  IF ans.type = "A"
    THEN [ips |-> Append(acc.ips, ans.A),
          shortestTTL |-> IF TakesTTL(acc.shortestTTL, ans.Ttl)
                            THEN ans.Ttl ELSE acc.shortestTTL]
    ELSE acc

\* lines 189-203: the loop, from rec.ips = nil and shortestTTL = 0
RECURSIVE AnswerLoop(_, _)
AnswerLoop(acc, answer) ==
  IF answer = <<>> THEN acc
  ELSE AnswerLoop(AnswerStep(acc, Head(answer)), Tail(answer))

\* a slip of line 206: a computed TTL of 0 replaced by a default of a second
Expires_AtLeastASecond(t, shortestTTL) ==
  t + (IF shortestTTL = 0 THEN 1 ELSE shortestTTL)

\* line 206: t.Add(time.Second * time.Duration(shortestTTL)), clock in seconds
Expires(t, shortestTTL) == t + shortestTTL

\* lines 185-206: the record built from response r when the clock reads t
BuildRecord(r, t) ==
  LET res == AnswerLoop([ips |-> <<>>, shortestTTL |-> 0], r)
  IN  [msg |-> <<r>>, ips |-> res.ips, expires |-> Expires(t, res.shortestTTL)]

NoEntry == [rec |-> ZeroRecord, ok |-> FALSE]
NoPrev == [ok |-> FALSE, host |-> "", rec |-> ZeroRecord]

\* ---- ParseEndpoint (lines 42-67) ----------------------------------------
\* a Go string is the sequence of its characters, each a one-character string
ErrInvalidEndpointString == "invalid endpoint string"
ErrFailedParsingIP == "unable to parse IP from string"
ErrFailedParsingPort == "unable to parse port from string"

\* the nil net.IP, and the zero Endpoint of the named result ep
NilIP == <<>>
ZeroEndpoint == [IP |-> NilIP, Port |-> 0]

HexChars ==
  <<"0", "1", "2", "3", "4", "5", "6", "7", "8", "9",
    "a", "b", "c", "d", "e", "f">>
UpperHexChars == <<"A", "B", "C", "D", "E", "F">>
IsDigit(c) == \E i \in 1..10 : HexChars[i] = c
IsHexDigit(c) ==
  \/ \E i \in 1..16 : HexChars[i] = c
  \/ \E i \in 1..6 : UpperHexChars[i] = c
HexVal(c) ==
  IF \E i \in 1..16 : HexChars[i] = c
    THEN (CHOOSE i \in 1..16 : HexChars[i] = c) - 1
    ELSE (CHOOSE i \in 1..6 : UpperHexChars[i] = c) + 9

\* s[n:]
Drop(s, n) == SubSeq(s, n + 1, Len(s))
\* strings.Index(s, sep) for a one-character sep, counting from 1; 0 if none
Index(s, sep) ==
  IF \E i \in 1..Len(s) : s[i] = sep
    THEN CHOOSE i \in 1..Len(s) : s[i] = sep /\ \A j \in 1..(i - 1) : s[j] # sep
    ELSE 0

\* strings.Split(s, sep), line 43: Split("", ":") is [""]
RECURSIVE Split(_, _)
Split(s, sep) ==
  LET i == Index(s, sep)
  IN  IF i = 0 THEN <<s>>
      ELSE <<SubSeq(s, 1, i - 1)>> \o Split(Drop(s, i), sep)

\* the leading run of characters of s that satisfy the test, as net's dtoi
\* and xtoi read it: its value in the base (kept once it is past max, where
\* the callers refuse it anyway) and its length
RECURSIVE ReadNumber(_, _, _, _, _)
ReadNumber(s, base, max, n, c) ==
  IF c < Len(s) /\ (IF base = 10 THEN IsDigit(s[c + 1]) ELSE IsHexDigit(s[c + 1]))
    THEN ReadNumber(s, base, max,
                    IF n > max THEN n ELSE n * base + HexVal(s[c + 1]), c + 1)
    ELSE [n |-> n, c |-> c, ok |-> c > 0]
dtoi(s) == ReadNumber(s, 10, 255, 0, 0)
xtoi(s) == ReadNumber(s, 16, 65535, 0, 0)

\* strconv.ParseUint(s, 10, 16), line 57: digits only, at least one, and a
\* value of at most 65535
ParseUint(s) ==
  LET r == ReadNumber(s, 10, 65535, 0, 0)
  IN  IF s = <<>> \/ r.c # Len(s) \/ r.n > 65535
        THEN [ok |-> FALSE, val |-> 0]
        ELSE [ok |-> TRUE, val |-> r.n]

\* net.parseIPv4: four decimal fields of at most 255 with dots in between
\* and nothing after; the result is the four bytes
RECURSIVE parseIPv4Fields(_, _, _)
parseIPv4Fields(s, i, ip) ==
  IF i = 4 THEN (IF s = <<>> THEN ip ELSE NilIP)
  ELSE IF s = <<>> THEN NilIP
  ELSE IF i > 0 /\ s[1] # "." THEN NilIP
  ELSE LET t == IF i > 0 THEN Tail(s) ELSE s
           d == dtoi(t)
       IN  IF ~d.ok \/ d.n > 255 THEN NilIP
           ELSE parseIPv4Fields(Drop(t, d.c), i + 1, Append(ip, d.n))
parseIPv4(s) == parseIPv4Fields(s, 0, <<>>)

\* the end of net.parseIPv6: i bytes have been filled with the groups g, the
\* "::" stood after `ellipsis` bytes (-1: there was none), s is what is left
parseIPv6End(s, i, ellipsis, g) ==
  IF s # <<>> THEN NilIP
  ELSE IF i < 16
    THEN IF ellipsis < 0 THEN NilIP
         ELSE SubSeq(g, 1, ellipsis \div 2)
                \o [k \in 1..(8 - Len(g)) |-> 0]
                \o SubSeq(g, ellipsis \div 2 + 1, Len(g))
    ELSE IF ellipsis >= 0 THEN NilIP ELSE g

\* the loop of net.parseIPv6 over the groups of 16 bits
RECURSIVE parseIPv6Loop(_, _, _, _)
parseIPv6Loop(s, i, ellipsis, g) ==
  IF i >= 16 THEN parseIPv6End(s, i, ellipsis, g)
  ELSE
    LET x == xtoi(s) IN
    IF ~x.ok \/ x.n > 65535 THEN NilIP
    ELSE IF x.c < Len(s) /\ s[x.c + 1] = "."
      THEN IF (ellipsis < 0 /\ i # 12) \/ i + 4 > 16 THEN NilIP
           ELSE LET ip4 == parseIPv4(s)
                IN  IF ip4 = NilIP THEN NilIP
                    ELSE parseIPv6End(<<>>, i + 4, ellipsis,
                           g \o <<ip4[1] * 256 + ip4[2], ip4[3] * 256 + ip4[4]>>)
      ELSE
        LET g2 == Append(g, x.n)
            s2 == Drop(s, x.c)
        IN  IF s2 = <<>> THEN parseIPv6End(s2, i + 2, ellipsis, g2)
            ELSE IF s2[1] # ":" \/ Len(s2) = 1 THEN NilIP
            ELSE IF s2[2] = ":"
              THEN IF ellipsis >= 0 THEN NilIP
                   ELSE IF Len(s2) = 2
                     THEN parseIPv6End(<<>>, i + 2, i + 2, g2)
                     ELSE parseIPv6Loop(Drop(s2, 2), i + 2, i + 2, g2)
              ELSE parseIPv6Loop(Tail(s2), i + 2, ellipsis, g2)

\* net.parseIPv6: a leading "::" first; the result is the eight groups
parseIPv6(s) ==
  IF Len(s) >= 2 /\ s[1] = ":" /\ s[2] = ":"
    THEN IF Len(s) = 2 THEN [k \in 1..8 |-> 0]
         ELSE parseIPv6Loop(Drop(s, 2), 0, 0, <<>>)
    ELSE parseIPv6Loop(s, 0, -1, <<>>)

\* net.ParseIP, line 49: the first '.' or ':' of s decides between the two
\* forms; without either s is no IP
ParseIP(s) ==
  LET firsts == {i \in 1..Len(s) : s[i] \in {".", ":"}}
  IN  IF firsts = {} THEN NilIP
      ELSE LET i == CHOOSE j \in firsts : \A k \in firsts : j <= k
           IN  IF s[i] = "." THEN parseIPv4(s) ELSE parseIPv6(s)

\* a slip of lines 54-64: the port of the string does not replace the default
ParseEndpoint_KeepsDefault(endpoint, defaultPort) ==
  LET e == Split(endpoint, ":") IN
  IF Len(e) > 2 THEN [ep |-> ZeroEndpoint, err |-> ErrInvalidEndpointString]
  ELSE IF ParseIP(e[1]) = NilIP
    THEN [ep |-> ZeroEndpoint, err |-> ErrFailedParsingIP]
  ELSE IF Len(e) > 1 /\ ~ParseUint(e[2]).ok
    THEN [ep |-> [IP |-> ParseIP(e[1]), Port |-> defaultPort],
          err |-> ErrFailedParsingPort]
  ELSE [ep |-> [IP |-> ParseIP(e[1]), Port |-> defaultPort], err |-> ErrNil]

\* a slip of lines 45-52: the IP is parsed before the fields are counted
ParseEndpoint_IPFirst(endpoint, defaultPort) ==
  LET e == Split(endpoint, ":") IN
  IF ParseIP(e[1]) = NilIP
    THEN [ep |-> ZeroEndpoint, err |-> ErrFailedParsingIP]
  ELSE IF Len(e) > 2
    THEN [ep |-> ZeroEndpoint, err |-> ErrInvalidEndpointString]
  ELSE IF Len(e) > 1 /\ ~ParseUint(e[2]).ok
    THEN [ep |-> [IP |-> ParseIP(e[1]), Port |-> defaultPort],
          err |-> ErrFailedParsingPort]
  ELSE [ep |-> [IP |-> ParseIP(e[1]),
                Port |-> IF Len(e) > 1 THEN ParseUint(e[2]).val % 65536
                         ELSE defaultPort],
        err |-> ErrNil]

\* ParseEndpoint, lines 42-67; uint16(i) of line 63 is i modulo 2^16
ParseEndpoint(endpoint, defaultPort) ==
  LET e == Split(endpoint, ":") IN
  IF Len(e) > 2 THEN [ep |-> ZeroEndpoint, err |-> ErrInvalidEndpointString]
  ELSE IF ParseIP(e[1]) = NilIP
    THEN [ep |-> ZeroEndpoint, err |-> ErrFailedParsingIP]
  ELSE IF Len(e) > 1 /\ ~ParseUint(e[2]).ok
    THEN [ep |-> [IP |-> ParseIP(e[1]), Port |-> defaultPort],
          err |-> ErrFailedParsingPort]
  ELSE [ep |-> [IP |-> ParseIP(e[1]),
                Port |-> IF Len(e) > 1 THEN ParseUint(e[2]).val % 65536
                         ELSE defaultPort],
        err |-> ErrNil]

\* the inputs of ParseEndpoint: the fields below, at most MaxFields of them
\* with a colon between each two; among them are IPv4 literals with and
\* without a port, ports that are no uint16, and IPv6 literals such as "::1",
\* "ff::1" and "::8.8.8.8".  No number is written with leading zeros where
\* net.ParseIP reads it, as the versions of Go differ on those.
EndpointFields ==
  {<<>>,
   <<"8", ".", "8", ".", "8", ".", "8">>,
   <<"0", ".", "0", ".", "0", ".", "0">>,
   <<"1", "0", ".", "0", ".", "0", ".", "2", "5", "6">>,
   <<"1", ".", "2", ".", "3">>,
   <<"d", "n", "s">>,
   <<"0">>,
   <<"1">>,
   <<"5", "3">>,
   <<"0", "0", "5", "3">>,
   <<"6", "5", "5", "3", "5">>,
   <<"6", "5", "5", "3", "6">>,
   <<"+", "5", "3">>,
   <<"f", "f">>}
RECURSIVE Join(_, _)
Join(fs, sep) ==
  IF Len(fs) = 1 THEN fs[1] ELSE fs[1] \o <<sep>> \o Join(Tail(fs), sep)
EndpointStrings ==
  {Join(fs, ":") : fs \in UNION {[1..n -> EndpointFields] : n \in 1..MaxFields}}
DefaultPorts == {0, 53, 65535}

\* ---- the expiry offset (line 206) ---------------------------------------
\* An integer of w bits is the sequence of its w/8 bytes, lowest first, so
\* that the arithmetic of line 206 keeps its width.
Int64Bytes == 8
Uint32Bytes == 4
Byte(x, i) == IF i <= Len(x) THEN x[i] ELSE 0

\* the sum of the byte products of a and b that fall on byte k
RECURSIVE Column(_, _, _, _)
Column(a, b, k, i) ==
  IF i > k THEN 0 ELSE Byte(a, i) * Byte(b, k + 1 - i) + Column(a, b, k, i + 1)

\* bytes k..n of the product of a and b, given the carry into byte k: the
\* product modulo 2^(8n)
RECURSIVE MulBytes(_, _, _, _, _)
MulBytes(a, b, n, k, carry) ==
  IF k > n THEN <<>>
  ELSE LET t == Column(a, b, k, 1) + carry
       IN  <<t % 256>> \o MulBytes(a, b, n, k + 1, t \div 256)

\* a * b of two int64 (time.Duration), wrapping as Go's multiplication does
Mul64(a, b) == MulBytes(a, b, Int64Bytes, 1, 0)

\* time.Hour, 3600000000000 ns, that is 0x34630B8A000
TimeHour == <<0, 160, 184, 48, 70, 3, 0, 0>>
\* time.Second, 1000000000 ns, that is 0x3B9ACA00
TimeSecond == <<0, 202, 154, 59, 0, 0, 0, 0>>

\* time.Duration(shortestTTL): a uint32 made an int64, the high bytes zero
Duration(ttl) == [i \in 1..Int64Bytes |-> Byte(ttl, i)]

\* time.Second * time.Duration(shortestTTL), line 206
ExpiryOffset(ttl) == Mul64(TimeSecond, Duration(ttl))

\* the TTLs tried: every uint32 whose bytes are among these, from 0 to
\* 2^32-1, with the ones next to a change of a high bit
TTLBytes == {0, 1, 127, 128, 255}
TTLs == [1..Uint32Bytes -> TTLBytes]

\* ---- the state machine --------------------------------------------------
\* no argument given, no result yet: <<>>, and <<v>> once there is a value v
NoValue == <<>>

\* no client has been constructed
NoClient ==
  /\ client = FALSE
  /\ servers = <<>>
  /\ newErr = ErrNil
  /\ now = 0
  /\ mutex = 0
  /\ records = newDNSCache
  /\ pc = [p \in Procs |-> "idle"]
  /\ host = [p \in Procs |-> ""]
  /\ entry = [p \in Procs |-> NoEntry]
  /\ idx = [p \in Procs |-> 0]
  /\ rec = [p \in Procs |-> ZeroRecord]
  /\ ret = [p \in Procs |-> NoReturn]
  /\ xlog = [p \in Procs |-> <<>>]
  /\ prev = [p \in Procs |-> NoPrev]
  /\ lastSetter = [h \in Keys |-> 0]
  /\ ncalls = 0
clientVars ==
  <<servers, client, newErr, now, mutex, records, pc, host, entry, idx, rec,
    ret, xlog, prev, lastSetter, ncalls>>

\* the client alone: no argument of a pure function is given
Init ==
  /\ input = NoValue
  /\ output = NoValue
  /\ NoClient

\* a slip of lines 129-131: the length of the list is not checked
NewSimpleDNSClient_NoCheck(s) ==
  /\ ~client
  /\ newErr' = ErrNil
  /\ client' = TRUE
  /\ servers' = s
  /\ records' = newDNSCache
  /\ UNCHANGED <<input, output, now, mutex, pc, host, entry, idx, rec, ret,
                 xlog, prev, lastSetter, ncalls>>

\* NewSimpleDNSClient (lines 128-144): an empty list is refused
NewSimpleDNSClient(s) ==
  /\ ~client
  /\ IF Len(s) < 1
       THEN /\ newErr' = ErrNoServers
            /\ UNCHANGED <<client, servers, records>>
       ELSE /\ newErr' = ErrNil
            /\ client' = TRUE
            /\ servers' = s
            /\ records' = newDNSCache
  /\ UNCHANGED <<input, output, now, mutex, pc, host, entry, idx, rec, ret,
                 xlog, prev, lastSetter, ncalls>>

\* the clock advances
Tick ==
  /\ now < MaxTime
  /\ now' = now + 1
  /\ UNCHANGED <<input, output, servers, client, newErr, mutex, records, pc, host, entry, idx, rec,
                 ret, xlog, prev, lastSetter, ncalls>>

\* LookupIP(h) is called and calls Get (lines 159-161)
LookupIP(p, h, maxCalls) ==
  /\ client
  /\ pc[p] \in {"idle", "done"}
  /\ ncalls < maxCalls
  /\ ncalls' = ncalls + 1
  /\ host' = [host EXCEPT ![p] = h]
  /\ pc' = [pc EXCEPT ![p] = "get_lock"]
  /\ entry' = [entry EXCEPT ![p] = NoEntry]
  /\ idx' = [idx EXCEPT ![p] = 0]
  /\ rec' = [rec EXCEPT ![p] = ZeroRecord]
  /\ ret' = [ret EXCEPT ![p] = NoReturn]
  /\ xlog' = [xlog EXCEPT ![p] = <<>>]
  /\ UNCHANGED <<input, output, servers, client, newErr, now, mutex, records,
                 prev, lastSetter>>

\* Get takes the mutex (line 108)
GetLock(p) ==
  /\ pc[p] = "get_lock"
  /\ mutex = 0
  /\ mutex' = p
  /\ pc' = [pc EXCEPT ![p] = "get"]
  /\ UNCHANGED <<input, output, servers, client, newErr, now, records, host,
                 entry, idx, rec, ret, xlog, prev, lastSetter, ncalls>>

\* a slip of line 109: Get returns without unlocking
GetReturn_NoUnlock(p) ==
  /\ pc[p] = "get"
  /\ entry' = [entry EXCEPT ![p] = Get(records, host[p])]
  /\ pc' = [pc EXCEPT ![p] = "check"]
  /\ UNCHANGED <<input, output, servers, client, newErr, now, mutex, records, host, idx, rec, ret,
                 xlog, prev, lastSetter, ncalls>>

\* Get reads the map and returns, its deferred Unlock running (lines 109-113)
GetReturn(p) ==
  /\ pc[p] = "get"
  /\ entry' = [entry EXCEPT ![p] = Get(records, host[p])]
  /\ mutex' = 0
  /\ pc' = [pc EXCEPT ![p] = "check"]
  /\ UNCHANGED <<input, output, servers, client, newErr, now, records, host, idx, rec, ret, xlog,
                 prev, lastSetter, ncalls>>

\* a slip of line 168: the loop stops before the last server
Loop_SkipsLast(p, i) ==
  IF i < Len(servers) \/ i = 1
    THEN /\ idx' = [idx EXCEPT ![p] = i]
         /\ pc' = [pc EXCEPT ![p] = "exchange"]
         /\ ret' = ret
    ELSE /\ idx' = idx
         /\ pc' = [pc EXCEPT ![p] = "done"]
         /\ ret' = [ret EXCEPT ![p] =
                      [ips |-> <<>>, err |-> ErrAllServersFailed, line |-> 215]]

\* a slip of line 168: the server is picked as Endpoints.Random picks one
Loop_Random(p, i) ==
  IF i <= Len(servers)
    THEN /\ \E j \in 1..Len(servers) : idx' = [idx EXCEPT ![p] = j]
         /\ pc' = [pc EXCEPT ![p] = "exchange"]
         /\ ret' = ret
    ELSE /\ idx' = idx
         /\ pc' = [pc EXCEPT ![p] = "done"]
         /\ ret' = [ret EXCEPT ![p] =
                      [ips |-> <<>>, err |-> ErrAllServersFailed, line |-> 215]]

\* a slip of line 168: after the last server the loop starts another pass
Loop_Retries(p, i) ==
  /\ idx' = [idx EXCEPT ![p] = IF i <= Len(servers) THEN i ELSE 1]
  /\ pc' = [pc EXCEPT ![p] = "exchange"]
  /\ ret' = ret

\* line 168, the loop header at position i: exchange with server i is
\* invoked (lines 169-176), or the list is exhausted (line 215)
Loop(p, i) ==
  IF i <= Len(servers)
    THEN /\ idx' = [idx EXCEPT ![p] = i]
         /\ pc' = [pc EXCEPT ![p] = "exchange"]
         /\ ret' = ret
    ELSE /\ idx' = idx
         /\ pc' = [pc EXCEPT ![p] = "done"]
         /\ ret' = [ret EXCEPT ![p] =
                      [ips |-> <<>>, err |-> ErrAllServersFailed, line |-> 215]]

\* lines 162-165: the expiry check against time.Now(); a hit returns the
\* cached ips, a miss enters the loop over the servers
Check(p) ==
  /\ pc[p] = "check"
  /\ entry' = [entry EXCEPT ![p] = NoEntry]
  /\ IF StillGood(entry[p], now)
       THEN /\ ret' = [ret EXCEPT ![p] =
                         [ips |-> entry[p].rec.ips, err |-> ErrNil, line |-> 164]]
            /\ pc' = [pc EXCEPT ![p] = "done"]
            /\ idx' = idx
       ELSE Loop(p, 1)
  /\ UNCHANGED <<input, output, servers, client, newErr, now, mutex, records, host, rec, xlog, prev,
                 lastSetter, ncalls>>

\* exchange returns (r, err) (lines 176-206): a timeout moves on to the next
\* server, another error is returned, a response is made into a record
ExchangeReturn(p, r, err) ==
  /\ pc[p] = "exchange"
  /\ xlog' = [xlog EXCEPT ![p] =
                Append(@, [server |-> servers[idx[p]], q |-> Fqdn(host[p]),
                           err |-> err])]
  /\ IF IsTimeout(err)
       THEN /\ Loop(p, idx[p] + 1)
            /\ rec' = rec
       ELSE IF err # ErrNil
         THEN /\ ret' = [ret EXCEPT ![p] =
                           [ips |-> <<>>, err |-> err, line |-> 182]]
              /\ pc' = [pc EXCEPT ![p] = "done"]
              /\ UNCHANGED <<idx, rec>>
         ELSE /\ rec' = [rec EXCEPT ![p] = BuildRecord(r, now)]
              /\ pc' = [pc EXCEPT ![p] = "set_lock"]
              /\ UNCHANGED <<idx, ret>>
  /\ UNCHANGED <<input, output, servers, client, newErr, now, mutex, records, host, entry, prev,
                 lastSetter, ncalls>>

\* a slip of line 117: Set does not wait for the mutex
SetLock_NoWait(p) ==
  /\ pc[p] = "set_lock"
  /\ mutex' = p
  /\ pc' = [pc EXCEPT ![p] = "set"]
  /\ UNCHANGED <<input, output, servers, client, newErr, now, records, host,
                 entry, idx, rec, ret, xlog, prev, lastSetter, ncalls>>

\* Set takes the mutex (lines 209, 117)
SetLock(p) ==
  /\ pc[p] = "set_lock"
  /\ mutex = 0
  /\ mutex' = p
  /\ pc' = [pc EXCEPT ![p] = "set"]
  /\ UNCHANGED <<input, output, servers, client, newErr, now, records, host, entry, idx, rec, ret,
                 xlog, prev, lastSetter, ncalls>>

\* Set writes the map and returns, its deferred Unlock running, and LookupIP
\* returns rec.ips (lines 118-121, 211)
SetReturn(p) ==
  /\ pc[p] = "set"
  /\ records' = Set(records, host[p], rec[p])
  /\ mutex' = 0
  /\ ret' = [ret EXCEPT ![p] =
               [ips |-> rec[p].ips, err |-> ErrNil, line |-> 211]]
  /\ pc' = [pc EXCEPT ![p] = "done"]
  /\ prev' = [prev EXCEPT ![p] = [ok |-> TRUE, host |-> host[p], rec |-> rec[p]]]
  /\ lastSetter' = [lastSetter EXCEPT ![host[p]] = p]
  /\ UNCHANGED <<input, output, servers, client, newErr, now, host, entry, idx, rec, xlog, ncalls>>

\* the steps of callers P looking up hosts H, at most C calls in all, the
\* servers answering with the responses R
Step(P, H, R, C, S) ==
  \/ \E s \in S : NewSimpleDNSClient(s)
  \/ Tick
  \/ \E p \in P, h \in H : LookupIP(p, h, C)
  \/ \E p \in P : GetLock(p)
  \/ \E p \in P : GetReturn(p)
  \/ \E p \in P : Check(p)
  \/ \E p \in P, err \in ExchangeErrors : ExchangeReturn(p, <<>>, err)
  \/ \E p \in P, r \in R : ExchangeReturn(p, r, ErrNil)
  \/ \E p \in P : SetLock(p)
  \/ \E p \in P : SetReturn(p)

\* concurrent callers of one client, all looking up the same host
Next == Step(Procs, {"a.com"}, Answers(MaxAnswers), MaxCalls, ServerLists)
Spec == Init /\ [][Next]_vars

\* one caller, its calls one after the other, longer answers, two hosts
\* concurrent callers looking up names that differ in case or closing dot
KeyNext == Step(Procs, Keys, Answers(MaxAnswers), MaxKeyCalls, ServerLists)
KeySpec == Init /\ [][KeyNext]_vars

\* the same callers under the assumptions of termination: the mutex is
\* granted fairly (sync.Mutex hands over to a waiter that has waited long),
\* every exchange returns, and a caller that can take a step of its own
\* does so; whether another call is made is left open
Exchanged(p) ==
  \/ \E err \in ExchangeErrors : ExchangeReturn(p, <<>>, err)
  \/ \E r \in Answers(MaxAnswers) : ExchangeReturn(p, r, ErrNil)
Fairness ==
  \A p \in Procs :
    /\ SF_vars(GetLock(p))
    /\ WF_vars(GetReturn(p))
    /\ WF_vars(Check(p))
    /\ WF_vars(Exchanged(p))
    /\ SF_vars(SetLock(p))
    /\ WF_vars(SetReturn(p))
FairNext ==
  Step(Procs, {"a.com"}, Answers(MaxAnswers), MaxFairCalls, ServerLists)
FairSpec == Init /\ [][FairNext]_vars /\ Fairness

\* ParseEndpoint alone: called once on any of the input strings
ParseInit ==
  /\ input \in {<<[endpoint |-> e, defaultPort |-> d]>> :
                  e \in EndpointStrings, d \in DefaultPorts}
  /\ output = NoValue
  /\ NoClient
CallParseEndpoint ==
  /\ output = NoValue
  /\ output' = <<ParseEndpoint(input[1].endpoint, input[1].defaultPort)>>
  /\ UNCHANGED <<input, clientVars>>
ParseNext == CallParseEndpoint
ParseSpec == ParseInit /\ [][ParseNext]_vars

\* the expiry offset alone: computed once for any of the TTLs
DurationInit ==
  /\ input \in {<<[shortestTTL |-> t]>> : t \in TTLs}
  /\ output = NoValue
  /\ NoClient
CallExpiryOffset ==
  /\ output = NoValue
  /\ output' = <<[d |-> ExpiryOffset(input[1].shortestTTL)]>>
  /\ UNCHANGED <<input, clientVars>>
DurationNext == CallExpiryOffset
DurationSpec == DurationInit /\ [][DurationNext]_vars

SeqNext ==
  Step({1}, Hosts, Answers(MaxSeqAnswers), MaxSeqCalls, EndpointLists)
SeqSpec == Init /\ [][SeqNext]_vars

TypeOK ==
  /\ servers \in EndpointLists
  /\ now \in 0..MaxTime
  /\ mutex \in 0..NumProcs
  /\ pc \in [Procs -> {"idle", "get_lock", "get", "check", "exchange", "set_lock", "set", "done"}]
  /\ ncalls \in 0..(MaxCalls + MaxSeqCalls)

\* ---- helpers of the properties ------------------------------------------
\* caller p takes a step that leaves the place `at` of LookupIP
Leaves(p, at) == pc[p] = at /\ pc'[p] # at

\* the TTLs of the A records of answer section r
ATtls(r) == {r[i].Ttl : i \in {j \in DOMAIN r : r[j].type = "A"}}
SetMin(S) == CHOOSE m \in S : \A x \in S : m <= x

\* ---- C1 -----------------------------------------------------------------
\* C1: a call returns without error and without any exchange only from the
\* expiry check, and only when the record Get returned has expires strictly
\* later than the clock at that check; the IPs returned are that record's.
C1_HitOnlyUnexpired ==
  [][\A p \in Procs :
       (pc[p] # "done" /\ pc'[p] = "done" /\ xlog'[p] = <<>> /\ ret'[p].err = ErrNil)
         => /\ pc[p] = "check"
            /\ entry[p].ok
            /\ entry[p].rec.expires > now
            /\ ret'[p].ips = entry[p].rec.ips]_vars

\* a cache hit, served after the clock has advanced
C1_Witness ==
  \E p \in Procs : pc[p] = "done" /\ ret[p].line = 164 /\ now >= 1 /\ ret[p].ips # <<>>

\* ---- C2 -----------------------------------------------------------------
\* C2 (as claimed): whenever the answer of a successful exchange holds an A
\* record, the record built has expires = the clock at that moment + the
\* minimum TTL of the A records.
C2_ExpiresAtMinTTL ==
  [][\A p \in Procs :
       (pc[p] = "exchange" /\ pc'[p] = "set_lock" /\ ATtls(rec'[p].msg[1]) # {})
         => rec'[p].expires = now + SetMin(ATtls(rec'[p].msg[1]))]_vars

\* ---- C3 -----------------------------------------------------------------
\* C3 (as claimed): once a call of p for a host has stored a record, a later
\* call of p for that host whose expiry check runs before that record's
\* expires returns that record's IPs from the cache, with no exchange,
\* whatever the other callers did meanwhile.
C3_IdempotentWhateverOthersDo ==
  [][\A p \in Procs :
       (/\ Leaves(p, "check")
        /\ prev[p].ok /\ prev[p].host = host[p]
        /\ now < prev[p].rec.expires)
         => /\ pc'[p] = "done"
            /\ ret'[p].line = 164
            /\ ret'[p].ips = prev[p].rec.ips
            /\ xlog'[p] = <<>>]_vars

\* C3 (amended): the same, provided the record Get returned to the later
\* call is still the one the earlier call stored.
C3_IdempotentWhileRecordStands ==
  [][\A p \in Procs :
       (/\ Leaves(p, "check")
        /\ prev[p].ok /\ prev[p].host = host[p]
        /\ entry[p].ok /\ entry[p].rec = prev[p].rec
        /\ now < prev[p].rec.expires)
         => /\ pc'[p] = "done"
            /\ ret'[p] = [ips |-> prev[p].rec.ips, err |-> ErrNil, line |-> 164]
            /\ xlog'[p] = <<>>]_vars

\* a second call of the same caller served from the record its first stored
C3_Witness ==
  \E p \in Procs :
    /\ pc[p] = "done" /\ ret[p].line = 164
    /\ prev[p].ok /\ prev[p].host = host[p]
    /\ host[p] \in DOMAIN records /\ records[host[p]] = prev[p].rec
    /\ ret[p].ips = prev[p].rec.ips /\ ret[p].ips # <<>>

\* ---- C4 -----------------------------------------------------------------
\* C4: a call whose Get returned a record that has expired at the check
\* (expires <= now) goes on to invoke exchange on the first server and does
\* not return from the cache; and a call that ends in an error returns no IPs,
\* so the stale IPs are not returned when every server fails either.
C4_ExpiredEntryIsLookedUp ==
  [][\A p \in Procs :
       /\ (Leaves(p, "check") /\ entry[p].ok /\ entry[p].rec.expires <= now)
            => /\ pc'[p] = "exchange"
               /\ idx'[p] = 1
               /\ servers[idx'[p]] = Head(servers)
       /\ (pc[p] # "done" /\ pc'[p] = "done" /\ ret'[p].err # ErrNil)
            => ret'[p].ips = <<>>]_vars

\* a caller that stored a record for the host, called again after it expired,
\* and saw every server time out
C4_Witness ==
  \E p \in Procs :
    /\ pc[p] = "done" /\ ret[p].line = 215 /\ ret[p].ips = <<>>
    /\ prev[p].ok /\ prev[p].host = host[p] /\ prev[p].rec.ips # <<>>
    /\ host[p] \in DOMAIN records /\ records[host[p]] = prev[p].rec
    /\ Len(xlog[p]) = Len(servers)

\* ---- C5 -----------------------------------------------------------------
\* the addresses of the A records of answer section r, in answer order
IsA(rr) == rr.type = "A"
AAddrs(r) == LET a == SelectSeq(r, IsA) IN [k \in 1..Len(a) |-> a[k].A]
Last(q) == q[Len(q)]
AllTimeouts(q) == \A i \in 1..Len(q) : q[i].err = "i/o timeout"

\* C5: a call that has returned after k timeouts followed by a response with
\* nil error (from server k+1) returned the A-record addresses of that
\* response and a nil error; and a call whose last exchange timed out has
\* returned only if that exchange was with the last server.
C5_Failover ==
  \A p \in Procs :
    (pc[p] = "done" /\ xlog[p] # <<>>) =>
      /\ (Last(xlog[p]).err = ErrNil /\ AllTimeouts(SubSeq(xlog[p], 1, Len(xlog[p]) - 1)))
           => /\ ret[p].err = ErrNil
              /\ ret[p].ips = AAddrs(rec[p].msg[1])
              /\ Last(xlog[p]).server = servers[Len(xlog[p])]
      /\ Last(xlog[p]).err = "i/o timeout" => Len(xlog[p]) = Len(servers)

\* every server but the last timed out and the last one answered
C5_Witness ==
  \E p \in Procs :
    /\ pc[p] = "done" /\ Len(xlog[p]) = MaxServers /\ Len(xlog[p]) >= 2
    /\ Last(xlog[p]).err = ErrNil /\ xlog[p][1].err = "i/o timeout"
    /\ ret[p].ips # <<>> /\ ret[p].err = ErrNil

\* ---- C6 -----------------------------------------------------------------
\* C6: whenever the last exchange a call has got back ended in an error that
\* is not a timeout, at whatever position i, the call has returned (so it
\* invokes no further exchange), with exactly that error and no IPs; the
\* exchanges it made were with servers 1..i in order.
C6_FailFast ==
  \A p \in Procs :
    (xlog[p] # <<>> /\ Last(xlog[p]).err \notin {ErrNil, "i/o timeout"}) =>
      /\ pc[p] = "done"
      /\ ret[p] = [ips |-> <<>>, err |-> Last(xlog[p]).err, line |-> 182]
      /\ \A i \in 1..Len(xlog[p]) : xlog[p][i].server = servers[i]

\* a hard failure of the second server, while a third is configured or not
C6_Witness ==
  \E p \in Procs :
    /\ pc[p] = "done" /\ Len(xlog[p]) >= 2
    /\ Last(xlog[p]).err = "connection refused" /\ ret[p].err = "connection refused"

\* ---- C7 -----------------------------------------------------------------
\* C7: a call that has returned has returned ErrAllServersFailed exactly when
\* it missed the cache and got a timeout from every configured server; the
\* error it returned is never a timeout itself: it is nil,
\* ErrAllServersFailed, or a non-timeout error of exchange.
C7_Exhaustion ==
  \A p \in Procs :
    pc[p] = "done" =>
      /\ ret[p].err = ErrAllServersFailed
           <=> /\ ret[p].line # 164
               /\ Len(xlog[p]) = Len(servers)
               /\ AllTimeouts(xlog[p])
      /\ ret[p].err # "i/o timeout"
      /\ ret[p].err \in {ErrNil, ErrAllServersFailed, "connection refused", "EOF"}
      /\ ret[p].err \notin {ErrNil, ErrAllServersFailed}
           => ret[p].err = Last(xlog[p]).err

\* every one of several servers timed out
C7_Witness ==
  \E p \in Procs :
    /\ pc[p] = "done" /\ ret[p].err = ErrAllServersFailed
    /\ Len(xlog[p]) = Len(servers) /\ Len(servers) >= 2

\* ---- C8 -----------------------------------------------------------------
\* C8: when a caller has returned from a call that stored a record and no
\* Set on that key has run since, the cache holds for the key exactly the
\* record that call built, whatever was stored there before.
C8_LastWriteWins ==
  \A p \in Procs :
    (pc[p] = "done" /\ ret[p].line = 211 /\ lastSetter[host[p]] = p) =>
      /\ host[p] \in DOMAIN records
      /\ records[host[p]] = rec[p]

\* two calls for one host that both missed and both exchanged: p stored a
\* record that is still good, q then stored another over it
C8_Witness ==
  \E p, q \in Procs :
    /\ p # q /\ host[p] = host[q]
    /\ pc[p] = "done" /\ ret[p].line = 211
    /\ pc[q] = "done" /\ ret[q].line = 211
    /\ rec[p].expires > now
    /\ rec[p].ips # rec[q].ips /\ rec[p].ips # <<>> /\ rec[q].ips # <<>>
    /\ lastSetter[host[q]] = q
    /\ records[host[q]] = rec[q]

\* ---- C9 -----------------------------------------------------------------
\* C9: a caller holds the mutex exactly while it is inside Get or inside
\* Set; a caller whose exchange is in progress does not hold it, so the
\* mutex is then free or held by a caller that is inside Get or Set.
C9_NoLockAcrossExchange ==
  /\ \A p \in Procs : (mutex = p) <=> pc[p] \in {"get", "set"}
  /\ \A p \in Procs : pc[p] = "exchange" => mutex # p
  /\ mutex # 0 => pc[mutex] \in {"get", "set"}

\* a cache hit served to one caller while another is in its exchange
C9_Witness ==
  \E p, q \in Procs :
    /\ pc[p] = "exchange" /\ host[p] = host[q]
    /\ pc[q] = "done" /\ ret[q].line = 164

\* ---- C10 ----------------------------------------------------------------
\* C10: a record built from an answer without A records has expires equal to
\* the clock read when it is built and no IPs; and a call whose Get returned
\* such a record does not return it: it invokes exchange on the first server.
C10_NoAddressNotCached ==
  [][\A p \in Procs :
       /\ (pc[p] = "exchange" /\ pc'[p] = "set_lock" /\ ATtls(rec'[p].msg[1]) = {})
            => /\ rec'[p].expires = now
               /\ rec'[p].ips = <<>>
       /\ (Leaves(p, "check") /\ entry[p].ok /\ ATtls(entry[p].rec.msg[1]) = {})
            => /\ pc'[p] = "exchange"
               /\ idx'[p] = 1]_vars

\* a caller stored a record without addresses and, calling again at the same
\* reading of the clock, is exchanging with the first server
C10_Witness ==
  \E p \in Procs :
    /\ pc[p] = "exchange" /\ idx[p] = 1 /\ xlog[p] = <<>>
    /\ prev[p].ok /\ prev[p].host = host[p]
    /\ prev[p].rec.msg[1] # <<>> /\ ATtls(prev[p].rec.msg[1]) = {}
    /\ records[host[p]] = prev[p].rec
    /\ prev[p].rec.expires = now

\* ---- C11 ----------------------------------------------------------------
\* C11: the record built from a response has as its IPs the addresses of the
\* A records of the answer, in answer order, and an expiry that is the one of
\* the answer with every other record removed (the clock, plus the TTL of one
\* of the A records or plus 0 when there is none); a response with nil error
\* is never turned into an error; and the call returns, and the cache then
\* holds, exactly those IPs.
C11_OnlyARecordsCount ==
  [][\A p \in Procs :
       /\ (pc[p] = "exchange" /\ pc'[p] # "exchange" /\ Last(xlog'[p]).err = ErrNil)
            => pc'[p] = "set_lock"
       /\ (pc[p] = "exchange" /\ pc'[p] = "set_lock")
            => LET r == rec'[p].msg[1] IN
               /\ rec'[p].ips = AAddrs(r)
               /\ rec'[p].expires = BuildRecord(SelectSeq(r, IsA), now).expires
               /\ rec'[p].expires - now \in
                    (IF ATtls(r) = {} THEN {0} ELSE ATtls(r))
       /\ (pc[p] = "set" /\ pc'[p] = "done")
            => /\ ret'[p] = [ips |-> AAddrs(rec[p].msg[1]), err |-> ErrNil,
                             line |-> 211]
               /\ records'[host[p]].ips = AAddrs(rec[p].msg[1])
               /\ records'[host[p]].expires = rec[p].expires]_vars

\* an answer of an A record with TTL 1 followed by a CNAME record with TTL 0:
\* one IP is returned and cached, and the expiry is that of the A record
C11_Witness ==
  \E p \in Procs :
    /\ pc[p] = "done" /\ ret[p].line = 211
    /\ Len(rec[p].msg[1]) = 2
    /\ rec[p].msg[1][1].type = "A" /\ rec[p].msg[1][1].Ttl = 1
    /\ rec[p].msg[1][2].type = "CNAME" /\ rec[p].msg[1][2].Ttl = 0
    /\ ret[p].ips = <<rec[p].msg[1][1].A>>
    /\ records[host[p]].ips = ret[p].ips
    /\ rec[p].expires >= 1

\* ---- C12 ----------------------------------------------------------------
\* C12: a construction that returned an error made no client, so that no
\* LookupIP was ever called; a client that exists has at least one server;
\* and a call that returned from anywhere but the cache hit of line 164 has
\* invoked exchange at least once.
C12_NonEmptyServers ==
  /\ newErr # ErrNil => ~client /\ ncalls = 0
  /\ client => Len(servers) >= 1 /\ newErr = ErrNil
  /\ \A p \in Procs :
       /\ pc[p] # "idle" => client /\ Len(servers) >= 1
       /\ (pc[p] = "done" /\ ret[p].line # 164) => Len(xlog[p]) >= 1

\* the construction with the empty list has been refused
C12_Witness == newErr = ErrNoServers /\ ~client /\ servers = <<>>

\* ---- C13 ----------------------------------------------------------------
\* what the properties of ParseEndpoint say of a string, stated on the text
Colons(s) == Cardinality({i \in 1..Len(s) : s[i] = ":"})
HostPart(s) == IF Index(s, ":") = 0 THEN s ELSE SubSeq(s, 1, Index(s, ":") - 1)
PortPart(s) == Drop(s, Index(s, ":"))
AllDigits(s) == s # <<>> /\ \A i \in 1..Len(s) : IsDigit(s[i])
\* s without its leading zeros
Significant(s) ==
  LET nz == {i \in 1..Len(s) : s[i] # "0"}
  IN  IF nz = {} THEN <<>>
      ELSE SubSeq(s, CHOOSE i \in nz : \A j \in nz : i <= j, Len(s))
\* the decimal numeral s denotes at most what the numeral m denotes
AtMost(s, m) ==
  LET t == Significant(s)
  IN  \/ Len(t) < Len(m)
      \/ t = m
      \/ /\ Len(t) = Len(m)
         /\ \E i \in 1..Len(t) : /\ \A j \in 1..(i - 1) : t[j] = m[j]
                                 /\ HexVal(t[i]) < HexVal(m[i])
RECURSIVE DecimalValue(_)
DecimalValue(s) ==
  IF s = <<>> THEN 0
  ELSE DecimalValue(SubSeq(s, 1, Len(s) - 1)) * 10 + HexVal(s[Len(s)])
IsIPv4Literal(s) ==
  LET f == Split(s, ".")
  IN  /\ Len(f) = 4
      /\ \A i \in 1..4 : AllDigits(f[i]) /\ AtMost(f[i], <<"2", "5", "5">>)
IPv4Bytes(s) == [i \in 1..4 |-> DecimalValue(Split(s, ".")[i])]
IsUint16Decimal(s) == AllDigits(s) /\ AtMost(s, <<"6", "5", "5", "3", "5">>)

\* C13 as stated: whenever the string is an IP literal that net.ParseIP
\* accepts, of either family, the result is that IP with the default port and
\* no error; and for a literal, a colon and a uint16 it is that IP and port.
C13_DefaultPortForAnyIP ==
  output # NoValue =>
    LET s == input[1].endpoint
    IN  /\ ParseIP(s) # NilIP =>
             output[1] = [ep |-> [IP |-> ParseIP(s),
                                  Port |-> input[1].defaultPort],
                          err |-> ErrNil]
        /\ (/\ Colons(s) = 1
            /\ IsIPv4Literal(HostPart(s))
            /\ IsUint16Decimal(PortPart(s))) =>
             output[1] = [ep |-> [IP |-> IPv4Bytes(HostPart(s)),
                                  Port |-> DecimalValue(PortPart(s))],
                          err |-> ErrNil]

\* C13 amended: for an IPv4 literal the result is that IP with the default
\* port and no error; for an IPv4 literal, a colon and a uint16 numeral it is
\* that IP and that port; an IPv6 literal is refused with
\* ErrInvalidEndpointString and the zero Endpoint.
C13_DefaultPortForIPv4 ==
  output # NoValue =>
    LET s == input[1].endpoint
    IN  /\ IsIPv4Literal(s) =>
             output[1] = [ep |-> [IP |-> IPv4Bytes(s),
                                  Port |-> input[1].defaultPort],
                          err |-> ErrNil]
        /\ (/\ Colons(s) = 1
            /\ IsIPv4Literal(HostPart(s))
            /\ IsUint16Decimal(PortPart(s))) =>
             output[1] = [ep |-> [IP |-> IPv4Bytes(HostPart(s)),
                                  Port |-> DecimalValue(PortPart(s))],
                          err |-> ErrNil]
        /\ (ParseIP(s) # NilIP /\ Colons(s) > 1) =>
             output[1] = [ep |-> ZeroEndpoint, err |-> ErrInvalidEndpointString]

\* "8.8.8.8" with default port 53 has been parsed
C13_Witness ==
  /\ input = <<[endpoint |-> <<"8", ".", "8", ".", "8", ".", "8">>,
                defaultPort |-> 53]>>
  /\ output = <<[ep |-> [IP |-> <<8, 8, 8, 8>>, Port |-> 53], err |-> ErrNil]>>

\* ---- C14 ----------------------------------------------------------------
\* C14: the error is decided by the first of these that applies: more than
\* one colon, ErrInvalidEndpointString; a part before the colon (or a whole
\* string) that is no IP, ErrFailedParsingIP; a colon followed by anything but
\* a decimal numeral of at most 65535, ErrFailedParsingPort; else no error.
\* The Endpoint is the zero one for the first two errors.
C14_ErrorPrecedence ==
  output # NoValue =>
    LET s == input[1].endpoint
    IN  /\ output[1].err =
             IF Colons(s) > 1 THEN ErrInvalidEndpointString
             ELSE IF ~IsIPv4Literal(HostPart(s)) THEN ErrFailedParsingIP
             ELSE IF Colons(s) = 1 /\ ~IsUint16Decimal(PortPart(s))
               THEN ErrFailedParsingPort
             ELSE ErrNil
        /\ output[1].err \in {ErrInvalidEndpointString, ErrFailedParsingIP}
             => output[1].ep = ZeroEndpoint

\* "8.8.8.8:", an IP with a colon and nothing after it, has been refused for
\* its port
C14_Witness ==
  /\ output # NoValue
  /\ input[1].endpoint = <<"8", ".", "8", ".", "8", ".", "8", ":">>
  /\ output[1].err = ErrFailedParsingPort

\* ---- C15 ----------------------------------------------------------------
\* C15: within one call the i-th exchange is with the i-th entry of the
\* configured list, so that there are never more exchanges than entries and
\* each entry is used at most once; every exchange but the last one returned
\* has timed out, and one in flight follows only timeouts; a call that
\* returned from the cache hit of line 164 has made no exchange.
C15_ListOrder ==
  \A p \in Procs :
    /\ Len(xlog[p]) <= Len(servers)
    /\ \A i \in 1..Len(xlog[p]) : xlog[p][i].server = servers[i]
    /\ AllTimeouts(SubSeq(xlog[p], 1, Len(xlog[p]) - 1))
    /\ pc[p] = "exchange" =>
         /\ idx[p] = Len(xlog[p]) + 1
         /\ idx[p] <= Len(servers)
         /\ AllTimeouts(xlog[p])
    /\ pc[p] \in {"get_lock", "get", "check"} => xlog[p] = <<>>
    /\ (pc[p] = "done" /\ ret[p].line = 164) => xlog[p] = <<>>

\* the list names endpoint 2 before endpoint 1; the exchange with 2 has timed
\* out and the one with 1 has returned
C15_Witness ==
  \E p \in Procs :
    /\ servers = <<Endpoint(2), Endpoint(1)>>
    /\ pc[p] = "done"
    /\ Len(xlog[p]) = 2
    /\ xlog[p][1].server = Endpoint(2) /\ xlog[p][1].err = "i/o timeout"
    /\ xlog[p][2].server = Endpoint(1)

\* ---- C16 ----------------------------------------------------------------
\* the callers inside Get or Set, between Lock and the deferred Unlock
InCritical == {p \in Procs : pc[p] \in {"get", "set"}}

\* C16: at most one caller is inside Get or Set at any time, and it is the
\* one holding the mutex; the mutex is held by nobody else, so that a caller
\* outside holds no lock; returning from Get or Set frees the mutex; and the
\* Get that returns hands out either absence or, whole, the record that the
\* last Set for that key stored: its response, the IPs of that response and
\* an expiry that has been set.
C16_MutualExclusion ==
  /\ [](/\ Cardinality(InCritical) <= 1
        /\ \A p \in Procs : p \in InCritical <=> mutex = p)
  /\ [][\A p \in Procs :
          /\ (Leaves(p, "get") \/ Leaves(p, "set")) => mutex' = 0
          /\ Leaves(p, "get") =>
               IF host[p] \in DOMAIN records
                 THEN /\ entry'[p] = [rec |-> records[host[p]], ok |-> TRUE]
                      /\ \E q \in Procs :
                           /\ prev[q].ok /\ prev[q].host = host[p]
                           /\ prev[q].rec = entry'[p].rec
                      /\ entry'[p].rec.msg # <<>>
                      /\ entry'[p].rec.ips = AAddrs(entry'[p].rec.msg[1])
                      /\ entry'[p].rec.expires # ZeroTime
                 ELSE entry'[p] = NoEntry]_vars

\* one caller is inside Set while the other waits for the mutex to store its
\* own record, and the cache already holds a record
C16_Witness ==
  \E p, q \in Procs :
    /\ p # q
    /\ pc[p] = "set" /\ mutex = p
    /\ pc[q] = "set_lock"
    /\ "a.com" \in DOMAIN records

\* ---- C17 ----------------------------------------------------------------
\* C17: the cache changes only in the step in which a caller returns from
\* Set, after its last exchange returned a nil error; that step puts the
\* caller's record under exactly the name the call was given and leaves every
\* other key, absent or present, as it was; and a call that returns from the
\* cache hit, with a non-timeout error or with ErrAllServersFailed was never
\* in Set and leaves the cache as it was.
C17_Frame ==
  [][/\ records' # records =>
          \E p \in Procs :
            /\ pc[p] = "set" /\ pc'[p] = "done"
            /\ xlog[p] # <<>> /\ Last(xlog[p]).err = ErrNil
            /\ DOMAIN records' = (DOMAIN records) \cup {host[p]}
            /\ records'[host[p]] = rec[p]
            /\ \A k \in (DOMAIN records) \ {host[p]} : records'[k] = records[k]
     /\ \A p \in Procs :
          /\ (pc[p] = "set" /\ pc'[p] = "done") =>
               /\ host[p] \in DOMAIN records'
               /\ records'[host[p]] = rec[p]
          /\ (pc[p] # "done" /\ pc'[p] = "done" /\ ret'[p].line # 211) =>
               /\ pc[p] \notin {"set_lock", "set"}
               /\ records' = records]_vars

\* "a.com" is cached, and a call for "a.com." has all the same missed the
\* cache, found every server timing out, and left the cache alone
C17_Witness ==
  \E p \in Procs :
    /\ DOMAIN records = {"a.com"}
    /\ pc[p] = "done" /\ host[p] = "a.com."
    /\ ret[p].line = 215 /\ xlog[p] # <<>>

\* ---- C18 ----------------------------------------------------------------
\* the offsets from the clock that the A records of answer r allow
AOffsets(r) == IF ATtls(r) = {} THEN {0} ELSE ATtls(r)

\* C18: every record in the cache holds one response, has as IPs the A
\* addresses of that response, and expires at a time of the past or present
\* plus the TTL of one of its A records (plus 0 without any); the record a
\* caller is about to store was built from the response of the exchange that
\* returned last, which had a nil error and asked for the name of the key,
\* with the clock of that moment; and a key's record changes only by being
\* replaced, whole, by the record of a caller returning from Set.
C18_RecordFromOneResponse ==
  /\ [](/\ \A h \in DOMAIN records :
             /\ Len(records[h].msg) = 1
             /\ records[h].ips = AAddrs(records[h].msg[1])
             /\ \E t \in 0..now :
                  records[h].expires - t \in AOffsets(records[h].msg[1])
        /\ \A p \in Procs :
             pc[p] \in {"set_lock", "set"} =>
               /\ Last(xlog[p]).err = ErrNil
               /\ Last(xlog[p]).q = Fqdn(host[p])
               /\ rec[p].ips = AAddrs(rec[p].msg[1]))
  /\ [][/\ \A p \in Procs :
             (pc[p] = "exchange" /\ pc'[p] = "set_lock") =>
               rec'[p].expires - now \in AOffsets(rec'[p].msg[1])
        /\ \A p \in Procs : pc[p] \in {"set_lock", "set"} => rec'[p] = rec[p]
        /\ \A h \in DOMAIN records :
             /\ h \in DOMAIN records'
             /\ records'[h] # records[h] =>
                  \E p \in Procs : /\ pc[p] = "set" /\ pc'[p] = "done"
                                   /\ host[p] = h
                                   /\ records'[h] = rec[p]]_vars

\* two callers have each stored a record, under "a.com" and under "a.com.",
\* built from different responses to the same question
C18_Witness ==
  /\ {"a.com", "a.com."} \subseteq DOMAIN records
  /\ records["a.com"].msg # records["a.com."].msg
  /\ records["a.com"].ips # records["a.com."].ips
  /\ \A p \in Procs : pc[p] = "done" /\ Last(xlog[p]).q = "a.com."

\* ---- C19 ----------------------------------------------------------------
\* C19: under fair granting of the mutex and with every exchange returning,
\* a call that has been made returns; at no time has a call got back more
\* exchanges than there are servers; and a call that has returned has done
\* so in exactly one of four ways: with the cached IPs and no exchange (line
\* 164), with the IPs of the response its last exchange brought (line 211),
\* with the non-timeout error of its last exchange (line 182), or with
\* ErrAllServersFailed after one timeout per server (line 215).
C19_Termination ==
  /\ \A p \in Procs : (pc[p] = "get_lock") ~> (pc[p] = "done")
  /\ [](\A p \in Procs :
          /\ Len(xlog[p]) <= Len(servers)
          /\ pc[p] = "done" =>
               \/ /\ ret[p].line = 164
                  /\ ret[p].err = ErrNil /\ xlog[p] = <<>>
               \/ /\ ret[p].line = 211
                  /\ ret[p].err = ErrNil /\ Last(xlog[p]).err = ErrNil
                  /\ ret[p].ips = rec[p].ips
               \/ /\ ret[p].line = 182
                  /\ ret[p].err = Last(xlog[p]).err /\ ret[p].ips = <<>>
                  /\ ret[p].err # ErrNil /\ ~IsTimeout(ret[p].err)
               \/ /\ ret[p].line = 215
                  /\ ret[p].err = ErrAllServersFailed /\ ret[p].ips = <<>>
                  /\ Len(xlog[p]) = Len(servers) /\ AllTimeouts(xlog[p]))

\* one caller waits for the mutex at the entry of Get while the other holds
\* it inside Set
C19_Witness ==
  \E p, q \in Procs :
    /\ pc[p] = "get_lock"
    /\ pc[q] = "set" /\ mutex = q

\* ---- C20 ----------------------------------------------------------------
\* the number whose bytes are x, modulo m (m below 46341, to stay in range)
RECURSIVE ValueMod(_, _)
ValueMod(x, m) ==
  IF x = <<>> THEN 0 ELSE (x[1] + 256 * ValueMod(Tail(x), m)) % m
Moduli == {251, 32749, 46337}

\* C20: for every TTL the offset of line 206 is the product of the TTL and
\* 10^9 itself: the 64-bit product has its sign bit clear and equals the
\* product taken in 128 bits, in which nothing can wrap, and it agrees with
\* TTL * 10^9 modulo each of three primes.  The offset is thus never
\* negative, and adding it to time.Now() gives no earlier time.
C20_OffsetFitsInt64 ==
  output # NoValue =>
    LET ttl == input[1].shortestTTL
        d == output[1].d
    IN  /\ Len(d) = Int64Bytes
        /\ d[Int64Bytes] < 128
        /\ MulBytes(TimeSecond, ttl, 2 * Int64Bytes, 1, 0)
             = d \o [i \in 1..Int64Bytes |-> 0]
        /\ \A m \in Moduli :
             ValueMod(d, m) = (ValueMod(ttl, m) * (1000000000 % m)) % m
        /\ (d = [i \in 1..Int64Bytes |-> 0]) <=> (ttl = [i \in 1..Uint32Bytes |-> 0])

\* the largest TTL, 2^32-1 seconds, has been converted: 4294967295000000000
\* ns, that is 0x3B9AC9FFC4653600
C20_Witness ==
  /\ input = <<[shortestTTL |-> <<255, 255, 255, 255>>]>>
  /\ output = <<[d |-> <<0, 54, 101, 196, 255, 201, 154, 59>>]>>

====
